---- MODULE Spec2Model ----
(***************************************************************************)
(* Touch-reaction engine of the Claudron dashboard server (src/server.js,  *)
(* second listing, lines 388-1212).  State is the set of files under data/ *)
(* the handlers read and write, the three module-level variables           *)
(* (touchWakeThrottle, reactionRevertTimer, preReactionState), the pending *)
(* setTimeout callbacks of the event loop and the wake commands handed to  *)
(* the agent.  Every handler runs to completion after its request body has *)
(* been read (all file access is synchronous), so a handler is one action. *)
(* Time is counted in seconds: 5000 ms = 5.                                *)
(***************************************************************************)
EXTENDS Integers, Sequences, FiniteSets, TLC

\* ------------------------------------------------------------------ bounds
\* Seconds after the server starts during which time is followed second by
\* second; later instants are reached by waiting for a deadline (WaitTimer)
\* or for the edge of a wake window (WaitWake).
Horizon == 1
\* Writes the agent makes (state.json directly, or POST /api/spatial-cache).
MaxAgentWrites == 1
\* Entries the touch log may hold (touches and identifications handled).
MaxLog == 2
\* Entries of TOUCH_REACTIONS a tap may draw (the first PoolSize of the pool).
PoolSize == 2
\* Date.now() when the server starts, in seconds; any value above
\* WakeWindow makes "no record" (0) read as "long ago", as the epoch does.
StartTime == 40

\* ------------------------------------------------------- program constants
DblRevertDelay == 10
TapRevertDelay == 5
SpatialRevertDelay == 8
IdentifyRevertDelay == 5
WakeWindow == 30

Null == "null"
\* preReactionState = null (a value no record of the model equals)
NoBaseline == [mood |-> Null, status |-> Null]

ThinkingMood == "excited"
ThinkingStatus == "one sec... (thinking)"
GuestMood == "curious"
GuestStatus == "who goes there?"
EmptyFloor == "just empty floor here... nothing interesting"
CantSee == "hmm, I can't quite see from here..."

\* TOUCH_REACTIONS, in the order of the source.
TOUCH_REACTIONS ==
  << [mood |-> "happy",       status |-> "hey!"],
     [mood |-> "mischievous", status |-> "*poke*"],
     [mood |-> "excited",     status |-> "that tickles!"],
     [mood |-> "happy",       status |-> "hi hi hi!"],
     [mood |-> "embarrassed", status |-> "oh!"],
     [mood |-> "cozy",        status |-> "mmm warm pats"],
     [mood |-> "proud",       status |-> "yes I AM great"],
     [mood |-> "curious",     status |-> "whatcha need?"],
     [mood |-> "happy",       status |-> "hehe"],
     [mood |-> "excited",     status |-> "!!!"],
     [mood |-> "mischievous", status |-> "can't catch me~"],
     [mood |-> "happy",       status |-> "*purrs*"],
     [mood |-> "cozy",        status |-> "more pats pls"],
     [mood |-> "proud",       status |-> "you're lucky I'm here"],
     [mood |-> "embarrassed", status |-> "stoppp"] >>

\* Math.floor(Math.random() * TOUCH_REACTIONS.length): the indices drawn.
ReactionChoices == 1..(IF PoolSize < Len(TOUCH_REACTIONS) THEN PoolSize ELSE Len(TOUCH_REACTIONS))

\* The closed set /api/identify accepts.
Identities == {"miranda", "ryan", "guest"}

\* ------------------------------------------------------------ environment
Ips == {"ip1", "ip2"}
Rooms == {"workshop", "garden"}
Locations == {"cauldron"}
\* What the agent writes into state.json through its own write path.
AgentMoods == {"thinking"}
AgentStatuses == {"brewing"}
\* Click positions, in thousandths of the room's width and height.
SpritePos == [x |-> 500, y |-> 500]
OffPositions == {[x |-> 120, y |-> 130]}
\* The description the agent posts, and the cell keys it posts it under.
AgentDescription == "a shelf of potions"
AgentCells == {"1_1"}
\* The spatial lookup's inputs: double-taps near a landmark, at 0.14, at
\* 0.15 and just over 0.15 from it, on the room's right edge and in its far
\* corner.
ResolvePositions ==
  { [x |-> 120, y |-> 130], [x |-> 290, y |-> 150], [x |-> 300, y |-> 150],
    [x |-> 301, y |-> 150], [x |-> 1000, y |-> 150], [x |-> 1000, y |-> 1000] }
ResolveCells == {"2_1", "9_1"}

VARIABLES
  now,                  \* Date.now(), seconds
  state,                \* data/state.json
  preReactionState,     \* let preReactionState
  reactionRevertTimer,  \* let reactionRevertTimer: id of the last timer set, 0 = null
  timers,               \* setTimeout callbacks not yet run nor cleared
  touchWakeThrottle,    \* const touchWakeThrottle = new Map()
  knownIps,             \* data/known-ips.json
  touchLog,             \* data/touch-log.jsonl
  pendingTouches,       \* data/pending-touches.jsonl
  spatialCache,         \* data/spatial-cache.json
  spatialMap,           \* data/spatial-map.json (never written by the server)
  files,                \* whether known-ips.json, spatial-cache.json and state.json can be used
  wakeFailed,           \* wakes whose exec callback reported an error (console.error lines)
  wakes,                \* openclaw system events started, in order
  awaiting,             \* per address, the request suspended at await readJsonBody(req), if any;
                        \* history: it is kept as the record state.json held when it arrived
  last,                 \* the request handled last (req) and the response to it
  chainBase,            \* history: mood/status before the first reaction of the pending chain
  chainLen,             \* history: reactions in the pending chain (2 = two or more)
  reactedAt,            \* history: time of the pending chain's last reaction
  extWrote,             \* history: an external write followed the pending chain's last reaction
  agentVal,             \* history: mood/status as last left by the agent
  agentWrites,          \* history: writes the agent has made
  readCount             \* history: per pending entry, the reads that returned it (2 = two or more)

vars == << now, state, preReactionState, reactionRevertTimer, timers,
           touchWakeThrottle, knownIps, touchLog, pendingTouches, spatialCache,
           spatialMap, files, wakeFailed, wakes, awaiting, last, chainBase, chainLen,
           reactedAt, extWrote, agentVal, agentWrites, readCount >>

MS(rec) == [mood |-> rec.mood, status |-> rec.status]

\* ------------------------------------------------------------ identities
\* The state of a data file: "ok"; "unreadable" (missing, or not JSON:
\* readFileSync or JSON.parse throws); "null" (JSON that is no object: the
\* parse succeeds and the first property access throws a TypeError);
\* "readonly" (reads succeed, writeFileSync / appendFileSync throws).
Healthy == [knownIps |-> "ok", spatialCache |-> "ok", state |-> "ok", touchLog |-> "ok"]

\* A request body that JSON.parse rejects (readJsonBody's promise rejects).
Unparsable == "<not json>"

\* The address has no request waiting for its body.
NotWaiting == [waiting |-> FALSE]

\* No request is waiting for its body.
NoRequests == [i \in Ips |-> NotWaiting]

\* Mutant: the handler reads state.json before it awaits the body.
StateRead_AtArrival(ip) == IF awaiting[ip] # NotWaiting THEN awaiting[ip] ELSE state

\* const state = JSON.parse(fs.readFileSync(STATE_FILE, 'utf8')), made by a
\* handler after its await
StateRead(ip) == state

\* Mutant: a failed append to the touch log is swallowed.
LogAppendThrows_Swallowed == FALSE

\* fs.appendFileSync(touch-log.jsonl, ...) throws
LogAppendThrows == files.touchLog # "ok"

\* let knownIps = {}; try { knownIps = JSON.parse(fs.readFileSync(...)) } catch {}
KnownIpsRead == IF files.knownIps = "ok" THEN knownIps ELSE << >>

\* let spatialCache = {}; try { spatialCache = JSON.parse(...) } catch {}
CacheRead == IF files.spatialCache = "ok" THEN spatialCache ELSE << >>

\* const who = knownIps[ip] || null
Who(ip) == IF ip \in DOMAIN KnownIpsRead THEN KnownIpsRead[ip] ELSE Null

\* Mutant: anything passes the validation of /api/identify.
ValidWho_Any(who) == TRUE

\* !(!who || !['miranda', 'ryan', 'guest'].includes(who)); Null is a body
\* with no who field.
ValidWho(who) == who # Null /\ who \in Identities

\* Mutant: an address keeps the identity it was given first.
Assign_FirstWins(map, ip, who) ==
  IF ip \in DOMAIN map THEN map
  ELSE [i \in DOMAIN map \cup {ip} |-> IF i = ip THEN who ELSE map[i]]

\* Mutant: the identity is not written to known-ips.json.
Assign_Dropped(map, ip, who) == map

\* knownIps[ip] = who, written back to known-ips.json.
Assign(map, ip, who) ==
  [i \in DOMAIN map \cup {ip} |-> IF i = ip THEN who ELSE map[i]]

\* Mutant: a guest's touches are kept out of the pending queue.
PendingAfter_NamedOnly(file, who, entry) ==
  IF who # Null /\ who # "guest" THEN Append(file, entry) ELSE file

\* if (who) fs.appendFileSync(PENDING_TOUCHES_FILE, ...)
PendingAfter(file, who, entry) ==
  IF who # Null THEN Append(file, entry) ELSE file

\* body.type === 'dblclick' || body.type === 'doubleclick'
IsDoubleClick(type) == type \in {"dblclick", "doubleclick"}

\* logEntry of /api/touch; n stands for the ts field (the n-th line appended).
\* ...(who ? { who } : { unknown: true })
LogEntry(ip, type, pos, onSprite) ==
  IF Who(ip) # Null
    THEN [n |-> Len(touchLog) + 1, type |-> type, x |-> pos.x, y |-> pos.y,
          onSprite |-> onSprite, ip |-> ip, who |-> Who(ip)]
    ELSE [n |-> Len(touchLog) + 1, type |-> type, x |-> pos.x, y |-> pos.y,
          onSprite |-> onSprite, ip |-> ip, unknown |-> TRUE]

\* logEntry of /api/identify.
IdentifyEntry(ip, who) ==
  [n |-> Len(touchLog) + 1, type |-> "identify", ip |-> ip, who |-> who]

\* ---------------------------------------------------------------- timers
\* Mutant: the old timer is not cleared before the new one is set.
ClearTimeout_Skipped(ts, handle) == ts

\* clearTimeout(handle): the callback with that handle, if still pending, is dropped.
ClearTimeout(ts, handle) == {t \in ts : t.id # handle}

\* setTimeout returns a handle no pending timer has.
NewTimerId(ts) == CHOOSE i \in 1..(Cardinality(ts) + 1) : \A t \in ts : t.id # i

\* Mutant: every branch reverts after the tap's delay.
RevertDelay_Flat(kind) == TapRevertDelay

\* The delay each branch passes to setTimeout.
RevertDelay(kind) ==
  CASE kind = "dbl"      -> DblRevertDelay
    [] kind = "tap"      -> TapRevertDelay
    [] kind = "spatial"  -> SpatialRevertDelay
    [] kind = "identify" -> IdentifyRevertDelay

\* Mutant: the baseline is captured anew by every reaction.
CaptureBaseline_Always(pre, st) == MS(st)

\* if (!preReactionState) preReactionState = { mood: state.mood, status: state.status }
CaptureBaseline(pre, st) == IF pre = NoBaseline THEN MS(st) ELSE pre

\* The double-click and spatial branches set preReactionState = null right
\* after scheduling; the tap and identify branches leave that to the callback.
PreAfterSchedule(kind, pre) == IF kind \in {"dbl", "spatial"} THEN NoBaseline ELSE pre

\* Mutant: no callback clears the held baseline.
PreAfterFire_Kept(kind, pre) == pre

\* The tap and identify callbacks start with preReactionState = null.
PreAfterFire(kind, pre) == IF kind \in {"tap", "identify"} THEN NoBaseline ELSE pre

\* The test each callback makes on the record it re-reads.
RevertMatches(t, cur) ==
  CASE t.kind = "dbl"      -> cur.status = ThinkingStatus
    [] t.kind = "tap"      -> cur.mood = t.mood /\ cur.status = t.status
    [] t.kind = "spatial"  -> cur.status = t.status
    [] t.kind = "identify" -> cur.mood = t.mood /\ cur.status = t.status

\* Mutant: the callback restores the status and forgets the mood.
Reverted_StatusOnly(t, cur) ==
  IF RevertMatches(t, cur) THEN [cur EXCEPT !.status = t.restoreTo.status] ELSE cur

\* The record a callback leaves in state.json.
Reverted(t, cur) ==
  IF RevertMatches(t, cur)
    THEN [cur EXCEPT !.mood = t.restoreTo.mood, !.status = t.restoreTo.status]
    ELSE cur

\* ------------------------------------------------------------ the throttle
\* Mutant: the throttle is looked up by address, not by identity.
LastWake_ByIp(who, ip) ==
  IF ip \in DOMAIN touchWakeThrottle THEN touchWakeThrottle[ip] ELSE 0

\* touchWakeThrottle.get(who || ip) || 0
LastWake(who, ip) ==
  LET key == IF who # Null THEN who ELSE ip
  IN IF key \in DOMAIN touchWakeThrottle THEN touchWakeThrottle[key] ELSE 0

\* Mutant: a wake exactly 30 s after the last one is let through.
WakeAllowed_Inclusive(who, lastWake, t) == who # Null /\ t - lastWake >= WakeWindow

\* Mutant: the wake is sent only when the placeholder could be written.
WakeAllowed_IfWritten(who, lastWake, t) ==
  who # Null /\ t - lastWake > WakeWindow /\ files.state = "ok"

\* Mutant: the wake is not gated on the caller being known.
WakeAllowed_Anyone(who, lastWake, t) == t - lastWake > WakeWindow

\* if (who && now - lastWake > 30000)
WakeAllowed(who, lastWake, t) == who # Null /\ t - lastWake > WakeWindow

\* touchWakeThrottle.set(who, now)
ThrottleSet(map, who, t) ==
  [k \in DOMAIN map \cup {who} |-> IF k = who THEN t ELSE map[k]]

\* ------------------------------------------------------ the spatial lookup
\* data/spatial-map.json: per room, the landmarks in file order (thousandths).
SpatialMap ==
  [r \in Rooms |->
     IF r = "workshop"
       THEN << [x |-> 150, y |-> 150, description |-> "the cauldron"],
               [x |-> 800, y |-> 300, description |-> "the bookshelf"] >>
       ELSE << [x |-> 150, y |-> 200, description |-> "the fountain"] >>]

\* What JSON.parse(fs.readFileSync(SPATIAL_MAP_FILE)) gives: the rooms of the
\* file, or (ok = FALSE) an exception when the file is missing or not JSON.
StandardMap == [ok |-> TRUE, rooms |-> SpatialMap]
UnreadableMap == [ok |-> FALSE, rooms |-> << >>]

ProximityThreshold == 150

\* The decimal rendering of a cell index in a template literal
\* (Math.floor(click * 10) is 0..10 for a click in [0, 1]).
Digit == << "0", "1", "2", "3", "4", "5", "6", "7", "8", "9", "10" >>

Min(a, b) == IF a < b THEN a ELSE b

\* Mutant: the cell index is not clamped.
Cell_Unclamped(c) == c \div 100

\* Math.min(Math.floor(click * 10), 9), for a coordinate in thousandths.
Cell(c) == Min(c \div 100, 9)

\* Mutant: the key is built row first.
CellKey_Swapped(x, y) == Digit[Cell(y) + 1] \o "_" \o Digit[Cell(x) + 1]

\* `${cellX}_${cellY}`
CellKey(x, y) == Digit[Cell(x) + 1] \o "_" \o Digit[Cell(y) + 1]

\* dx * dx + dy * dy: the square of dist (Math.sqrt is monotone, so the
\* comparisons on dist are made on the squares).
Dist2(obj, x, y) == (obj.x - x) * (obj.x - x) + (obj.y - y) * (obj.y - y)

\* Mutant: a landmark as near as the best so far replaces it.
RECURSIVE Nearest_Last(_, _, _, _, _)
Nearest_Last(objects, x, y, i, best) ==
  IF i > Len(objects) THEN best
  ELSE IF best = 0 \/ Dist2(objects[i], x, y) <= Dist2(objects[best], x, y)
    THEN Nearest_Last(objects, x, y, i + 1, i)
    ELSE Nearest_Last(objects, x, y, i + 1, best)

\* The for loop over objects: best is 0 (bestObj = null) or the index of
\* bestObj; a landmark replaces it only when strictly nearer.
RECURSIVE Nearest(_, _, _, _, _)
Nearest(objects, x, y, i, best) ==
  IF i > Len(objects) THEN best
  ELSE IF best = 0 \/ Dist2(objects[i], x, y) < Dist2(objects[best], x, y)
    THEN Nearest(objects, x, y, i + 1, i)
    ELSE Nearest(objects, x, y, i + 1, best)

\* Mutant: a landmark exactly 0.15 away is near enough.
WithinReach_Inclusive(d2) == d2 <= ProximityThreshold * ProximityThreshold

\* Mutant: any nearest landmark is near enough.
WithinReach_Always(d2) == TRUE

\* bestDist < 0.15, on the squares.
WithinReach(d2) == d2 < ProximityThreshold * ProximityThreshold

\* Priority 2: nearest object from the spatial map; the catch around it
\* answers for a file that cannot be read.
FromMap(room, x, y) ==
  LET objects == IF room \in DOMAIN spatialMap.rooms THEN spatialMap.rooms[room]
                                                     ELSE << >>
      best == Nearest(objects, x, y, 1, 0)
  IN IF ~spatialMap.ok THEN CantSee
     ELSE IF best # 0 /\ WithinReach(Dist2(objects[best], x, y))
       THEN objects[best].description
       ELSE EmptyFloor

\* Mutant: the map is asked first, the cache only where no landmark is near.
Describe_MapFirst(cache, room, x, y) ==
  IF FromMap(room, x, y) \notin {EmptyFloor, CantSee} THEN FromMap(room, x, y)
  ELSE IF << room, CellKey(x, y) >> \in DOMAIN cache
    THEN cache[<< room, CellKey(x, y) >>]
    ELSE FromMap(room, x, y)

\* Priority 1: the agent's override cache, else the map.
Describe(cache, room, x, y) ==
  IF << room, CellKey(x, y) >> \in DOMAIN cache
    THEN cache[<< room, CellKey(x, y) >>]
    ELSE FromMap(room, x, y)

\* ------------------------------------------------------------- initial state
InitialRecord ==
  [mood |-> "cozy", status |-> "reading", room |-> "workshop", location |-> "cauldron"]

\* The server has just started: no timer, no baseline, an empty throttle
\* map.  data/known-ips.json is kept from earlier runs.
InitWith(known) ==
  /\ now = StartTime
  /\ state = InitialRecord
  /\ preReactionState = NoBaseline
  /\ reactionRevertTimer = 0
  /\ timers = {}
  /\ touchWakeThrottle = << >>
  /\ knownIps \in known
  /\ touchLog = << >>
  /\ pendingTouches = << >>
  /\ spatialCache = << >>
  /\ spatialMap = StandardMap
  /\ files = Healthy
  /\ wakeFailed = {}
  /\ wakes = << >>
  /\ awaiting = NoRequests
  /\ last = [op |-> "none"]
  /\ chainBase = NoBaseline
  /\ chainLen = 0
  /\ reactedAt = 0
  /\ extWrote = FALSE
  /\ agentVal = MS(InitialRecord)
  /\ agentWrites = 0
  /\ readCount = << >>

Init == InitWith({ << >>, [i \in {"ip1"} |-> "miranda"] })

\* --------------------------------------------------------------- reactions
\* What the four reacting branches share: capture the baseline unless one
\* is held, write the record, clear the old timer, schedule the revert.
\* Each runs inside a try whose catch swallows the exception: when state.json
\* cannot be read nothing is done, and when it cannot be written the
\* baseline has been captured and nothing after the write is done.
React(kind, st0, st1) ==
  LET pre1    == CaptureBaseline(preReactionState, st0)
      cleared == ClearTimeout(timers, reactionRevertTimer)
      id      == NewTimerId(cleared)
      t       == [id |-> id, kind |-> kind, at |-> now + RevertDelay(kind),
                  restoreTo |-> pre1, mood |-> st1.mood, status |-> st1.status]
  IN IF files.state = "ok"
       THEN /\ state' = st1
            /\ timers' = cleared \cup {t}
            /\ reactionRevertTimer' = id
            /\ preReactionState' = PreAfterSchedule(kind, pre1)
            /\ chainBase' = IF timers # {} THEN chainBase ELSE MS(state)
            /\ chainLen' = IF timers # {} THEN 2 ELSE 1
            /\ reactedAt' = now
            /\ extWrote' = FALSE
       ELSE /\ preReactionState' = IF files.state = "readonly" THEN pre1
                                                                ELSE preReactionState
            /\ UNCHANGED << state, timers, reactionRevertTimer, chainBase, chainLen,
                            reactedAt, extWrote >>

NoReaction ==
  UNCHANGED << state, timers, reactionRevertTimer, preReactionState,
               chainBase, chainLen, reactedAt, extWrote >>

\* Mutant: guests are answered by the spatial branch too.
SpatialGuard_Guests(who, onSprite, dbl) == ~onSprite /\ dbl /\ who # Null

\* if (!body.onSprite && isDoubleClick && who && who !== 'guest')
SpatialGuard(who, onSprite, dbl) == ~onSprite /\ dbl /\ who # Null /\ who # "guest"

\* Mutant: the spatial branch sets a mood along with the description.
SpatialWrite_Curious(st, desc) == [st EXCEPT !.status = desc, !.mood = "curious"]

\* state.status = desc
SpatialWrite(st, desc) == [st EXCEPT !.status = desc]

\* Mutant: needsIdentify is raised for the touches off the target.
TouchResp_OffTarget(who, onSprite) ==
  IF who = "guest"
    THEN [ok |-> TRUE, who |-> "guest", mood |-> GuestMood, status |-> GuestStatus]
    ELSE IF who # Null
      THEN [ok |-> TRUE, who |-> who]
      ELSE [ok |-> TRUE, unknown |-> TRUE, needsIdentify |-> ~onSprite]

\* Mutant: an unknown caller is never asked to identify.
TouchResp_NeverAsks(who, onSprite) ==
  IF who = "guest"
    THEN [ok |-> TRUE, who |-> "guest", mood |-> GuestMood, status |-> GuestStatus]
    ELSE IF who # Null
      THEN [ok |-> TRUE, who |-> who]
      ELSE [ok |-> TRUE, unknown |-> TRUE, needsIdentify |-> FALSE]

\* The response of /api/touch when the spatial branch did not answer.
TouchResp(who, onSprite) ==
  IF who = "guest"
    THEN [ok |-> TRUE, who |-> "guest", mood |-> GuestMood, status |-> GuestStatus]
    ELSE IF who # Null
      THEN [ok |-> TRUE, who |-> who]
      ELSE [ok |-> TRUE, unknown |-> TRUE, needsIdentify |-> onSprite]

\* ---------------------------------------------------------------- actions
\* POST /api/touch, from the parsed body to the response.
Touch(ip, type, pos, onSprite, r) ==
  LET who      == Who(ip)
      entry    == LogEntry(ip, type, pos, onSprite)
      dbl      == IsDoubleClick(type)
      lastWake == LastWake(who, ip)
      reaction == TOUCH_REACTIONS[r]
      spatial  == SpatialGuard(who, onSprite, dbl)
      rd       == StateRead(ip)
      \* the spatial branch's own try: reading state.json or using a cache
      \* that is no object throws before anything is changed
      looked   == spatial /\ files.state # "unreadable" /\ files.spatialCache # "null"
      \* ... and a failed write throws before the response is sent
      answered == looked /\ files.state = "ok"
      desc     == Describe(CacheRead, rd.room, pos.x, pos.y)
      req      == [ip |-> ip, type |-> type, x |-> pos.x, y |-> pos.y,
                   onSprite |-> onSprite]
      \* what the handler's outer catch receives, if anything: the rejection
      \* of readJsonBody, the TypeError of knownIps[ip], the failed append
      thrown   == IF type = Unparsable THEN "Unexpected token"
                  ELSE IF files.knownIps = "null" THEN "Cannot read properties of null"
                  ELSE IF LogAppendThrows THEN "EACCES: permission denied"
                  ELSE Null
  IN IF thrown # Null
  THEN
     /\ last' = [op |-> "touch", code |-> 400, req |-> req,
                 body |-> [error |-> thrown]]
     /\ awaiting' = [awaiting EXCEPT ![ip] = NotWaiting]
     /\ UNCHANGED << now, state, preReactionState, reactionRevertTimer, timers,
                     touchWakeThrottle, knownIps, touchLog, pendingTouches,
                     spatialCache, spatialMap, files, wakeFailed, wakes, chainBase,
                     chainLen, reactedAt, extWrote, agentVal, agentWrites, readCount >>
  ELSE
     /\ Len(touchLog) < MaxLog
     /\ touchLog' = Append(touchLog, entry)
     /\ pendingTouches' = PendingAfter(pendingTouches, who, entry)
     /\ IF onSprite /\ dbl
          THEN React("dbl", rd, [rd EXCEPT !.mood = ThinkingMood,
                                          !.status = ThinkingStatus])
        ELSE IF onSprite
          THEN React("tap", rd, [rd EXCEPT !.mood = reaction.mood,
                                          !.status = reaction.status])
        ELSE IF looked
          THEN React("spatial", rd, SpatialWrite(rd, desc))
          ELSE NoReaction
     /\ IF onSprite /\ dbl /\ WakeAllowed(who, lastWake, now)
          THEN /\ touchWakeThrottle' = ThrottleSet(touchWakeThrottle, who, now)
               /\ wakes' = Append(wakes, [who |-> who, at |-> now])
          ELSE UNCHANGED << touchWakeThrottle, wakes >>
     /\ last' = [op |-> "touch", code |-> 200, req |-> req,
                 body |-> IF answered
                            THEN [ok |-> TRUE, spatial |-> TRUE, description |-> desc]
                            ELSE TouchResp(who, onSprite)]
     /\ awaiting' = [awaiting EXCEPT ![ip] = NotWaiting]
     /\ UNCHANGED << now, knownIps, spatialCache, spatialMap, files, wakeFailed, agentVal,
                     agentWrites, readCount >>

\* POST /api/identify.
Identify(ip, who, r) ==
  LET rd  == StateRead(ip)
      req == [ip |-> ip, who |-> who]
  IN IF ~ValidWho(who)
    THEN /\ last' = [op |-> "identify", code |-> 400, req |-> req,
                     body |-> [error |-> "Invalid who: must be miranda, ryan, or guest"]]
         /\ awaiting' = [awaiting EXCEPT ![ip] = NotWaiting]
         /\ UNCHANGED << now, state, preReactionState, reactionRevertTimer, timers,
                         touchWakeThrottle, knownIps, touchLog, pendingTouches,
                         spatialCache, spatialMap, files, wakeFailed, wakes, chainBase, chainLen,
                         reactedAt, extWrote, agentVal, agentWrites, readCount >>
    ELSE IF files.knownIps = "null"
    THEN \* knownIps[ip] = who throws; the handler's catch answers 400
         /\ last' = [op |-> "identify", code |-> 400, req |-> req,
                     body |-> [error |-> "Cannot set properties of null"]]
         /\ awaiting' = [awaiting EXCEPT ![ip] = NotWaiting]
         /\ UNCHANGED << now, state, preReactionState, reactionRevertTimer, timers,
                         touchWakeThrottle, knownIps, touchLog, pendingTouches,
                         spatialCache, spatialMap, files, wakeFailed, wakes, chainBase,
                         chainLen, reactedAt, extWrote, agentVal, agentWrites, readCount >>
    ELSE IF LogAppendThrows
    THEN \* known-ips.json is already written when the append throws
         /\ knownIps' = Assign(KnownIpsRead, ip, who)
         /\ files' = [files EXCEPT !.knownIps = "ok"]
         /\ last' = [op |-> "identify", code |-> 400, req |-> req,
                     body |-> [error |-> "EACCES: permission denied"]]
         /\ awaiting' = [awaiting EXCEPT ![ip] = NotWaiting]
         /\ UNCHANGED << now, state, preReactionState, reactionRevertTimer, timers,
                         touchWakeThrottle, touchLog, pendingTouches,
                         spatialCache, spatialMap, wakeFailed, wakes, chainBase,
                         chainLen, reactedAt, extWrote, agentVal, agentWrites, readCount >>
    ELSE /\ Len(touchLog) < MaxLog
         /\ knownIps' = Assign(KnownIpsRead, ip, who)
         /\ files' = [files EXCEPT !.knownIps = "ok"]
         /\ touchLog' = Append(touchLog, IdentifyEntry(ip, who))
         /\ IF who = "guest"
              THEN React("identify", rd, [rd EXCEPT !.mood = GuestMood,
                                                   !.status = GuestStatus])
              ELSE React("identify", rd, [rd EXCEPT !.mood = TOUCH_REACTIONS[r].mood,
                                                   !.status = TOUCH_REACTIONS[r].status])
         /\ last' = [op |-> "identify", code |-> 200, req |-> req,
                     body |-> [ok |-> TRUE, who |-> who]]
         /\ awaiting' = [awaiting EXCEPT ![ip] = NotWaiting]
         /\ UNCHANGED << now, touchWakeThrottle, pendingTouches, spatialCache,
                         spatialMap, wakeFailed, wakes, agentVal, agentWrites,
                         readCount >>

\* Mutant: only the newest line of the file is returned.
ReadLines_Newest(file) == IF file = << >> THEN << >> ELSE << file[Len(file)] >>

\* raw.split('\n').map(l => JSON.parse(l)): the lines of the file, in order
\* (each line is the JSON.stringify of a flat record of strings, numbers and
\* booleans, which JSON.parse gives back field by field).
ReadLines(file) == [i \in 1..Len(file) |-> file[i]]

\* Mutant: the file is not cleared after it is read.
Truncated_Kept(file) == file

\* fs.writeFileSync(PENDING_TOUCHES_FILE, '')
Truncated(file) == << >>

\* GET /api/pending-touches: read, then clear.
PendingRead ==
  /\ last' = [op |-> "pending", code |-> 200, req |-> << >>,
              body |-> [events |-> ReadLines(pendingTouches)]]
  /\ pendingTouches' = Truncated(pendingTouches)
  /\ readCount' =
       LET got == {pendingTouches[i].n : i \in 1..Len(pendingTouches)}
       IN [n \in DOMAIN readCount \cup got |->
             IF n \notin got THEN readCount[n]
             ELSE IF n \in DOMAIN readCount THEN 2 ELSE 1]
  /\ UNCHANGED << now, state, preReactionState, reactionRevertTimer, timers,
                  touchWakeThrottle, knownIps, touchLog, spatialCache, spatialMap, files, wakeFailed, awaiting,
                  wakes, chainBase, chainLen, reactedAt, extWrote, agentVal,
                  agentWrites >>

\* Mutant: the cache is rewritten with the new entry alone.
CacheSet_Fresh(cache, room, cell, description) ==
  [k \in {<< room, cell >>} |-> description]

\* if (!cache[room]) cache[room] = {}; cache[room][cell] = description
CacheSet(cache, room, cell, description) ==
  [k \in DOMAIN cache \cup {<< room, cell >>} |->
     IF k = << room, cell >> THEN description ELSE cache[k]]

\* POST /api/spatial-cache: the agent writes a description back.
SpatialCachePost(room, cell, description) ==
  LET req == [room |-> room, cell |-> cell, description |-> description]
      \* if (!room || !cell || !description), then cache[room] on a cache
      \* that is no object
      refused == IF Null \in {room, cell, description}
                   THEN "room, cell, and description required"
                 ELSE IF files.spatialCache = "null"
                   THEN "Cannot read properties of null"
                 ELSE Null
  IN IF refused # Null
  THEN
     /\ last' = [op |-> "spatial-cache", code |-> 400, req |-> req,
                 body |-> [error |-> refused]]
     /\ UNCHANGED << now, state, preReactionState, reactionRevertTimer, timers,
                     touchWakeThrottle, knownIps, touchLog, pendingTouches,
                     spatialCache, spatialMap, files, wakeFailed, wakes, awaiting, chainBase,
                     chainLen, reactedAt, extWrote, agentVal, agentWrites, readCount >>
  ELSE
     /\ agentWrites < MaxAgentWrites
     /\ agentWrites' = agentWrites + 1
     /\ spatialCache' = CacheSet(CacheRead, room, cell, description)
     /\ files' = [files EXCEPT !.spatialCache = "ok"]
     /\ state' = IF files.state = "ok" THEN [state EXCEPT !.status = description]
                                       ELSE state
     /\ last' = [op |-> "spatial-cache", code |-> 200, req |-> req,
                 body |-> [ok |-> TRUE, room |-> room, cell |-> cell, cached |-> TRUE]]
     /\ extWrote' = (timers # {})
     /\ agentVal' = IF files.state = "ok"
                      THEN [mood |-> state.mood, status |-> description]
                      ELSE agentVal
     /\ UNCHANGED << now, preReactionState, reactionRevertTimer, timers,
                     touchWakeThrottle, knownIps, touchLog, pendingTouches,
                     spatialMap, wakeFailed, wakes, awaiting, chainBase, chainLen, reactedAt,
                     readCount >>

\* A revert callback runs at its deadline.
TimerFire(t) ==
  /\ t \in timers
  /\ now >= t.at
  /\ timers' = timers \ {t}
  /\ preReactionState' = PreAfterFire(t.kind, preReactionState)
  /\ state' = IF files.state = "ok" THEN Reverted(t, state) ELSE state
  /\ chainBase' = NoBaseline
  /\ chainLen' = 0
  /\ reactedAt' = 0
  /\ extWrote' = FALSE
  /\ UNCHANGED << now, reactionRevertTimer, touchWakeThrottle, knownIps, touchLog,
                  pendingTouches, spatialCache, spatialMap, files, wakeFailed, wakes, awaiting, last, agentVal,
                  agentWrites, readCount >>

\* The agent rewrites state.json through its own write path.
AgentWrite(m, s, room, loc) ==
  LET rec == [mood |-> m, status |-> s, room |-> room, location |-> loc]
  IN /\ agentWrites < MaxAgentWrites
     /\ agentWrites' = agentWrites + 1
     /\ files.state = "ok"
     /\ MS(rec) # MS(state)
     /\ state' = rec
     /\ extWrote' = (timers # {})
     /\ agentVal' = MS(rec)
     /\ UNCHANGED << now, preReactionState, reactionRevertTimer, timers,
                     touchWakeThrottle, knownIps, touchLog, pendingTouches,
                     spatialCache, spatialMap, files, wakeFailed, wakes, awaiting, last, chainBase, chainLen,
                     reactedAt, readCount >>

\* Time passes without a request, up to newNow; a callback whose deadline
\* has come runs before time passes on.
Advance(newNow) ==
  /\ newNow > now
  /\ \A t \in timers : t.at >= newNow
  /\ now' = newNow
  /\ UNCHANGED << state, preReactionState, reactionRevertTimer, timers,
                  touchWakeThrottle, knownIps, touchLog, pendingTouches,
                  spatialCache, spatialMap, files, wakeFailed, wakes, awaiting, last, chainBase, chainLen,
                  reactedAt, extWrote, agentVal, agentWrites, readCount >>

\* A second passes.
Tick == now < StartTime + Horizon /\ Advance(now + 1)

\* Nothing happens until the pending revert is due.
WaitTimer == \E t \in timers : Advance(t.at)

\* Nothing happens until a wake window is at its last second, or just over.
WaitWake ==
  \E k \in DOMAIN touchWakeThrottle, d \in {WakeWindow, WakeWindow + 1} :
    Advance(touchWakeThrottle[k] + d)

TouchTypes == {"click", "dblclick"}
\* body.who of /api/identify: two identities of the closed set and a value
\* outside it; for the queue's runs the invalid body is the one with no who.
IdentifyChoices == {"miranda", "guest", "nobody"}
QueueIdentifyChoices == {"miranda", "guest", Null}

\* The reaction engine's runs: touches and identifications from one
\* address, the agent writing state.json, the revert callbacks.
Next ==
  \/ \E type \in TouchTypes, r \in ReactionChoices :
       Touch("ip1", type, SpritePos, TRUE, r)
  \/ \E pos \in OffPositions : Touch("ip1", "dblclick", pos, FALSE, 1)
  \/ \E who \in IdentifyChoices, r \in ReactionChoices : Identify("ip1", who, r)
  \/ \E t \in timers : TimerFire(t)
  \/ \E m \in AgentMoods \cup {state.mood}, s \in AgentStatuses \cup {state.status} :
       AgentWrite(m, s, state.room, state.location)
  \/ Tick
  \/ WaitTimer

Spec == Init /\ [][Next]_vars

\* The wake throttle's runs: touches and identifications from two addresses,
\* over more than one wake window; the agent neither writes nor reads.
InitWake ==
  InitWith({ [i \in {"ip1"} |-> "miranda"],
             [i \in Ips |-> "miranda"],
             [i \in Ips |-> IF i = "ip1" THEN "miranda" ELSE "guest"] })

NextWake ==
  \/ \E ip \in Ips, type \in TouchTypes : Touch(ip, type, SpritePos, TRUE, 1)
  \/ \E ip \in Ips, pos \in OffPositions : Touch(ip, "dblclick", pos, FALSE, 1)
  \/ \E ip \in Ips : Identify(ip, "miranda", 1)
  \/ \E t \in timers : TimerFire(t)
  \/ Tick
  \/ WaitTimer
  \/ WaitWake

SpecWake == InitWake /\ [][NextWake]_vars

\* The queue's runs: touches of every kind and identifications from two
\* addresses, the agent reading the pending queue and posting descriptions.
NextQueue ==
  \/ \E ip \in Ips, type \in TouchTypes : Touch(ip, type, SpritePos, TRUE, 1)
  \/ \E ip \in Ips, type \in TouchTypes, pos \in OffPositions :
       Touch(ip, type, pos, FALSE, 1)
  \/ \E ip \in Ips, who \in QueueIdentifyChoices : Identify(ip, who, 1)
  \/ PendingRead
  \/ \E cell \in AgentCells : SpatialCachePost(state.room, cell, AgentDescription)
  \/ \E t \in timers : TimerFire(t)
  \/ WaitTimer

SpecQueue == Init /\ [][NextQueue]_vars

\* The spatial lookup's runs: a named visitor double-taps around the room
\* while the agent posts descriptions; the files under data/ are what earlier
\* runs and the offline map generator left there.
ResolveCaches ==
  { << >>,
    (<< "workshop", "1_1" >> :> "a dusty corner"),
    (<< "garden", "9_9" >> :> "the far gate") }

\* A map whose workshop lists two landmarks 0.14 to either side of
\* (0.29, 0.15), the farther one from the room's left wall first.
TieMap ==
  [ok |-> TRUE,
   rooms |-> [r \in {"workshop"} |->
                << [x |-> 430, y |-> 150, description |-> "the bench"],
                   [x |-> 150, y |-> 150, description |-> "the cauldron"] >>]]

ResolveMaps == { StandardMap, TieMap, UnreadableMap, [ok |-> TRUE, rooms |-> << >>] }

InitResolve ==
  /\ now = StartTime
  /\ \E room \in Rooms : state = [InitialRecord EXCEPT !.room = room]
  /\ preReactionState = NoBaseline
  /\ reactionRevertTimer = 0
  /\ timers = {}
  /\ touchWakeThrottle = << >>
  /\ knownIps = [i \in {"ip1"} |-> "miranda"]
  /\ touchLog = << >>
  /\ pendingTouches = << >>
  /\ spatialCache \in ResolveCaches
  /\ spatialMap \in ResolveMaps
  /\ files = Healthy
  /\ wakeFailed = {}
  /\ wakes = << >>
  /\ awaiting = NoRequests
  /\ last = [op |-> "none"]
  /\ chainBase = NoBaseline
  /\ chainLen = 0
  /\ reactedAt = 0
  /\ extWrote = FALSE
  /\ agentVal = MS(InitialRecord)
  /\ agentWrites = 0
  /\ readCount = << >>

NextResolve ==
  \/ \E pos \in ResolvePositions : Touch("ip1", "dblclick", pos, FALSE, 1)
  \/ \E cell \in ResolveCells : SpatialCachePost(state.room, cell, AgentDescription)
  \/ \E t \in timers : TimerFire(t)
  \/ WaitTimer

SpecResolve == InitResolve /\ [][NextResolve]_vars

\* The exec callback of a wake reports an error: console.error, nothing else.
WakeFails(i) ==
  /\ i \in 1..Len(wakes)
  /\ i \notin wakeFailed
  /\ wakeFailed' = wakeFailed \cup {i}
  /\ UNCHANGED << now, state, preReactionState, reactionRevertTimer, timers,
                  touchWakeThrottle, knownIps, touchLog, pendingTouches, spatialCache,
                  spatialMap, files, wakes, awaiting, last, chainBase, chainLen, reactedAt,
                  extWrote, agentVal, agentWrites, readCount >>

\* The runs with a damaged data directory: one of the files is missing, is
\* not JSON, holds JSON that is no object, or cannot be written, from the
\* start; a known visitor touches and identifies, the agent posts a
\* description (or forgets it), wake commands fail, a body is not JSON.
FaultChoices ==
  { Healthy,
    [Healthy EXCEPT !.knownIps = "unreadable"],
    [Healthy EXCEPT !.knownIps = "null"],
    [Healthy EXCEPT !.spatialCache = "unreadable"],
    [Healthy EXCEPT !.spatialCache = "null"],
    [Healthy EXCEPT !.state = "unreadable"],
    [Healthy EXCEPT !.state = "readonly"],
    [Healthy EXCEPT !.touchLog = "unwritable"] }

\* spatial-cache.json as earlier posts left it: an entry in each room, in
\* cells the runs do not post to.
FaultCache ==
  (<< "workshop", "5_5" >> :> "a rug") @@ (<< "garden", "9_9" >> :> "the far gate")

InitFault ==
  /\ now = StartTime
  /\ state = InitialRecord
  /\ preReactionState = NoBaseline
  /\ reactionRevertTimer = 0
  /\ timers = {}
  /\ touchWakeThrottle = << >>
  /\ knownIps = [i \in {"ip1"} |-> "miranda"]
  /\ touchLog = << >>
  /\ pendingTouches = << >>
  /\ spatialCache = FaultCache
  /\ spatialMap \in {StandardMap, UnreadableMap}
  /\ files \in FaultChoices
  /\ wakeFailed = {}
  /\ wakes = << >>
  /\ awaiting = NoRequests
  /\ last = [op |-> "none"]
  /\ chainBase = NoBaseline
  /\ chainLen = 0
  /\ reactedAt = 0
  /\ extWrote = FALSE
  /\ agentVal = MS(InitialRecord)
  /\ agentWrites = 0
  /\ readCount = << >>

NextFault ==
  \/ \E type \in TouchTypes \cup {Unparsable} : Touch("ip1", type, SpritePos, TRUE, 1)
  \/ \E pos \in OffPositions : Touch("ip1", "dblclick", pos, FALSE, 1)
  \/ \E ip \in Ips, who \in {"miranda", "guest"} : Identify(ip, who, 1)
  \/ \E cell \in AgentCells, description \in {AgentDescription, Null} :
       SpatialCachePost(state.room, cell, description)
  \/ \E t \in timers : TimerFire(t)
  \/ \E i \in 1..Len(wakes) : WakeFails(i)
  \/ WaitTimer

SpecFault == InitFault /\ [][NextFault]_vars

\* A request from ip reaches its handler, which suspends at
\* await readJsonBody(req) having read nothing but the request's headers.
Arrive(ip) ==
  /\ awaiting[ip] = NotWaiting
  /\ awaiting' = [awaiting EXCEPT ![ip] = state]
  /\ UNCHANGED << now, state, preReactionState, reactionRevertTimer, timers,
                  touchWakeThrottle, knownIps, touchLog, pendingTouches, spatialCache,
                  spatialMap, files, wakeFailed, wakes, last, chainBase, chainLen,
                  reactedAt, extWrote, agentVal, agentWrites, readCount >>

\* The concurrent runs: requests of two known addresses are in flight at
\* once and their bodies arrive in any order, between them the revert
\* callbacks run and the agent rewrites the record, moving rooms.
InitInterleave == InitWith({ [i \in Ips |-> "miranda"] })

NextInterleave ==
  \/ \E ip \in Ips : Arrive(ip)
  \/ \E ip \in Ips, type \in TouchTypes :
       awaiting[ip] # NotWaiting /\ Touch(ip, type, SpritePos, TRUE, 1)
  \/ \E ip \in Ips : awaiting[ip] # NotWaiting /\ Identify(ip, "guest", 1)
  \/ \E t \in timers : TimerFire(t)
  \/ \E m \in AgentMoods, room \in Rooms :
       AgentWrite(m, state.status, room, state.location)
  \/ WaitTimer

SpecInterleave == InitInterleave /\ [][NextInterleave]_vars

\* ------------------------------------------------------------ properties
\* The last line of the touch log after the step.
Logged == touchLog'[Len(touchLog')]

\* The step handles one POST /api/touch.
TouchStep == Len(touchLog') = Len(touchLog) + 1 /\ Logged.type \in TouchTypes

\* The step handles one POST /api/touch (last'.req is its body and address).
TouchHandled ==
  /\ last'.op = "touch"
  /\ last' # last \/ touchLog' # touchLog \/ pendingTouches' # pendingTouches

\* The step handles one POST /api/touch that the spatial branch answered.
SpatialStep == TouchHandled /\ "spatial" \in DOMAIN last'.body

\* The step handles one POST /api/identify.
IdentifyHandled == last'.op = "identify" /\ (last' # last \/ touchLog' # touchLog)

\* The step runs the revert callback t.
Fires(t) == t \in timers /\ t \notin timers' /\ touchLog' = touchLog

\* -------------------------------------------------------------------- C1
\* C1: for a chain of reactions, each arriving before the previous revert
\* fired, the baseline the pending revert will restore is the record's
\* mood/status from before the first reaction of the chain.
C1_BaselineIsChainStart == \A t \in timers : t.restoreTo = chainBase

\* -------------------------------------------------------------------- C2
\* C2: a single reaction from Idle, with no further touch and no other
\* write, is undone when its delay (tap 5 s, double-tap 10 s, spatial 8 s,
\* identify 5 s) has elapsed: the callback runs at that instant and leaves
\* the mood and status the record had before the reaction.
C2_Delay(kind) ==
  CASE kind = "tap" -> 5 [] kind = "dbl" -> 10 [] kind = "spatial" -> 8
    [] kind = "identify" -> 5

C2_SingleReactionReverts ==
  [][\A t \in timers :
       (Fires(t) /\ chainLen = 1 /\ ~extWrote)
         => /\ MS(state') = chainBase
            /\ now = reactedAt + C2_Delay(t.kind)
            /\ timers' = {}]_vars

\* A double-tap on target was the only request, its revert has run and the
\* record is back to what it was.
C2_Witness ==
  /\ Len(touchLog) = 1 /\ touchLog[1].type = "dblclick" /\ touchLog[1].onSprite
  /\ timers = {} /\ agentWrites = 0
  /\ now = StartTime + 10
  /\ state = InitialRecord

\* -------------------------------------------------------------------- C3
\* C3: when the record's mood or status (either one) no longer is what the
\* reaction wrote, the revert callback writes nothing.
C3_RevertNeverClobbers ==
  [][\A t \in timers :
       (Fires(t) /\ MS(state) # [mood |-> t.mood, status |-> t.status])
         => state' = state]_vars

\* -------------------------------------------------------------------- C4
\* The step handles a tap or double-tap on target from an address with no
\* identity record.
C4_UnknownOnTarget == TouchStep /\ Logged.onSprite /\ "unknown" \in DOMAIN Logged

\* C4 as stated: such a touch returns needsIdentify:true and changes neither
\* the record's mood/status, nor the held baseline, nor the pending timer.
C4_UnknownTouchMutatesNothing ==
  [][C4_UnknownOnTarget
       => /\ last'.body = [ok |-> TRUE, unknown |-> TRUE, needsIdentify |-> TRUE]
          /\ MS(state') = MS(state)
          /\ preReactionState' = preReactionState
          /\ timers' = timers]_vars

\* C4 as amended: such a touch returns needsIdentify:true, adds nothing to
\* the pending queue, the identity map, the throttle or the wakes, and runs
\* the on-target reaction like any other: the placeholder (double-tap) or a
\* pool reaction (tap) is written and its revert is the one pending timer.
C4_UnknownTouchStillReacts ==
  [][C4_UnknownOnTarget
       => /\ last'.body = [ok |-> TRUE, unknown |-> TRUE, needsIdentify |-> TRUE]
          /\ pendingTouches' = pendingTouches
          /\ knownIps' = knownIps
          /\ touchWakeThrottle' = touchWakeThrottle
          /\ wakes' = wakes
          /\ IF Logged.type = "click"
               THEN \E i \in 1..Len(TOUCH_REACTIONS) : MS(state') = TOUCH_REACTIONS[i]
               ELSE MS(state') = [mood |-> ThinkingMood, status |-> ThinkingStatus]
          /\ \E t \in timers' :
               /\ timers' = {t}
               /\ t.at = now + (IF Logged.type = "click" THEN 5 ELSE 10)
               /\ t.restoreTo = (IF preReactionState = NoBaseline
                                   THEN MS(state) ELSE preReactionState)]_vars

\* An unknown address has just tapped the target: it is asked to identify
\* and the reaction is in the record.
C4_Witness ==
  /\ touchLog # << >>
  /\ "unknown" \in DOMAIN touchLog[Len(touchLog)]
  /\ touchLog[Len(touchLog)].onSprite
  /\ last.op = "touch" /\ "needsIdentify" \in DOMAIN last.body
  /\ last.body.needsIdentify
  /\ timers # {}
  /\ MS(state) # MS(InitialRecord)

\* -------------------------------------------------------------------- C5
\* C5: once every scheduled revert has run, the record's mood/status is
\* what the agent last left there (the initial value if it never wrote).
C5_ReactionsNeverPersist == timers = {} => MS(state) = agentVal

\* -------------------------------------------------------------------- C6
\* C6: at most one revert timer is pending, and it is the one whose handle
\* reactionRevertTimer holds: a superseded timer was cleared, so its
\* callback never runs.
C6_OnePendingTimer ==
  /\ Cardinality(timers) <= 1
  /\ \A t \in timers : t.id = reactionRevertTimer

\* A reaction has superseded an earlier one whose revert was still pending.
C6_Witness == chainLen = 2 /\ Cardinality(timers) = 1

\* -------------------------------------------------------------------- C7
\* C7: any two wakes emitted for one identity are more than 30 s apart.
C7_WakesApart ==
  \A i, j \in 1..Len(wakes) :
    (i < j /\ wakes[i].who = wakes[j].who) => wakes[j].at - wakes[i].at > 30

\* One identity has been woken for twice, from two addresses.
C7_Witness ==
  /\ Len(wakes) = 2 /\ wakes[1].who = wakes[2].who
  /\ Len(touchLog) = 2 /\ touchLog[1].ip # touchLog[2].ip

\* -------------------------------------------------------------------- C8
\* The step handles a double-tap on target from an address with an identity.
C8_KnownDoubleTap ==
  TouchStep /\ Logged.onSprite /\ Logged.type = "dblclick" /\ "who" \in DOMAIN Logged

\* C8: such a double-tap emits a wake and records now as the identity's
\* last wake iff the identity has no record or its last wake is more than
\* 30 s old; otherwise it emits nothing and leaves the record as it is.  No
\* other step emits a wake, so a suppressed wake is never sent later.
C8_WakeIffWindowOver ==
  [][/\ C8_KnownDoubleTap =>
          IF \/ Logged.who \notin DOMAIN touchWakeThrottle
             \/ now - touchWakeThrottle[Logged.who] > 30
            THEN /\ wakes' = Append(wakes, [who |-> Logged.who, at |-> now])
                 /\ DOMAIN touchWakeThrottle' = DOMAIN touchWakeThrottle \cup {Logged.who}
                 /\ \A k \in DOMAIN touchWakeThrottle' :
                      touchWakeThrottle'[k] =
                        IF k = Logged.who THEN now ELSE touchWakeThrottle[k]
            ELSE wakes' = wakes /\ touchWakeThrottle' = touchWakeThrottle
     /\ ~C8_KnownDoubleTap => wakes' = wakes]_vars

\* A second double-tap, in the last second of the window, was suppressed.
C8_Witness ==
  /\ Len(touchLog) = 2
  /\ \A i \in 1..2 : touchLog[i].type = "dblclick" /\ touchLog[i].onSprite
                     /\ "who" \in DOMAIN touchLog[i] /\ touchLog[i].who = "miranda"
  /\ Len(wakes) = 1
  /\ now = wakes[1].at + 30
  /\ touchWakeThrottle["miranda"] = wakes[1].at

\* -------------------------------------------------------------------- C9
\* C9: only a double-tap on target from an address with an identity emits
\* a wake or changes the throttle map; taps, off-target double-taps,
\* identifications, revert callbacks and unknown addresses never do.
C9_OnlyKnownDoubleTapWakes ==
  [][(wakes' # wakes \/ touchWakeThrottle' # touchWakeThrottle)
       => /\ TouchStep
          /\ Logged.onSprite
          /\ Logged.type \in {"dblclick", "doubleclick"}
          /\ "who" \in DOMAIN Logged]_vars

\* An unknown address double-tapped off the target, then on it: the
\* placeholder's revert is pending and nothing was emitted.
C9_Witness ==
  /\ Len(touchLog) = 2
  /\ touchLog[1].type = "dblclick" /\ ~touchLog[1].onSprite
  /\ touchLog[2].type = "dblclick" /\ touchLog[2].onSprite
  /\ "unknown" \in DOMAIN touchLog[2]
  /\ wakes = << >> /\ touchWakeThrottle = << >>
  /\ timers # {}

\* ------------------------------------------------------------------- C10
\* C10: GET /pending-touches returns the queue's contents and leaves the
\* queue empty in the same step, so a read that follows with no request in
\* between returns an empty batch.
C10_DestructiveRead ==
  /\ [][(last'.op = "pending" /\ touchLog' = touchLog /\ last' # last)
          => /\ last'.body.events = pendingTouches
             /\ pendingTouches' = << >>]_vars
  /\ [](last.op = "pending" => pendingTouches = << >>)

\* A read has just returned a populated batch.
C10_Witness ==
  /\ last.op = "pending"
  /\ Len(last.body.events) = 2
  /\ pendingTouches = << >>

\* ------------------------------------------------------------------- C11
\* C11: however touches and reads of the pending queue interleave, every
\* entry appended to the queue is returned by at most one read.
C11_ReadAtMostOnce == \A n \in DOMAIN readCount : readCount[n] = 1

\* Two entries were returned, by two different reads.
C11_Witness ==
  /\ last.op = "pending" /\ Len(last.body.events) = 1
  /\ Cardinality(DOMAIN readCount) = 2
  /\ pendingTouches = << >>

\* ------------------------------------------------------------------- C12
\* C12: every POST /touch appends exactly one entry, the touch as asked, to
\* the event log, whatever branch is taken; the same entry is appended to the
\* pending queue iff the caller's address has an identity record (a named
\* person or guest); no step ever removes or rewrites a line of the log.
C12_EveryTouchLogged ==
  [][/\ Len(touchLog') >= Len(touchLog)
     /\ SubSeq(touchLog', 1, Len(touchLog)) = touchLog
     /\ TouchHandled =>
          /\ Len(touchLog') = Len(touchLog) + 1
          /\ Logged.type = last'.req.type /\ Logged.ip = last'.req.ip
          /\ Logged.x = last'.req.x /\ Logged.y = last'.req.y
          /\ Logged.onSprite = last'.req.onSprite
          /\ IF last'.req.ip \in DOMAIN knownIps
               THEN pendingTouches' = Append(pendingTouches, Logged)
               ELSE pendingTouches' = pendingTouches]_vars

\* A guest's tap off the target (the ignored branch) is in the log and in
\* the queue.
C12_Witness ==
  /\ Len(touchLog) = 2
  /\ touchLog[2].type = "click" /\ ~touchLog[2].onSprite
  /\ "who" \in DOMAIN touchLog[2] /\ touchLog[2].who = "guest"
  /\ pendingTouches = << touchLog[2] >>
  /\ last.op = "touch"

\* ------------------------------------------------------------------- C13
\* C13: a spatial double-tap in room r at a position of cell c, when the
\* cache holds an entry for (r, c), returns that entry verbatim and writes it
\* as the status, whatever the map holds for r: a landmark within reach, no
\* landmark at all, or a file that cannot be read.
C13_CacheFirst ==
  [][(/\ SpatialStep
      /\ << state.room, CellKey(last'.req.x, last'.req.y) >> \in DOMAIN spatialCache)
       => LET entry == spatialCache[<< state.room, CellKey(last'.req.x, last'.req.y) >>]
          IN /\ last'.body = [ok |-> TRUE, spatial |-> TRUE, description |-> entry]
             /\ state'.status = entry
             /\ state'.mood = state.mood]_vars

\* A double-tap 0.036 away from the cauldron was answered from the cache.
C13_Witness ==
  /\ last.op = "touch" /\ last.req.x = 120 /\ last.req.y = 130
  /\ state.room = "workshop" /\ spatialMap = StandardMap
  /\ << "workshop", "1_1" >> \in DOMAIN spatialCache
  /\ "description" \in DOMAIN last.body
  /\ last.body.description = spatialCache[<< "workshop", "1_1" >>]
  /\ state.status = last.body.description

\* ------------------------------------------------------------------- C14
\* The squares of the distances from (x, y) to the landmarks of a room.
C14_Dist2s(objects, x, y) ==
  {(objects[i].x - x) * (objects[i].x - x) + (objects[i].y - y) * (objects[i].y - y) :
     i \in 1..Len(objects)}

\* C14: with no cache entry for the tapped cell and a readable map, a tap
\* whose nearest landmark is more than 0.15 away returns the generic "empty
\* floor" description, and a tap whose nearest landmark is 0.14 away
\* returns that landmark's description.
C14_ProximityBoundary ==
  [][(/\ SpatialStep
      /\ << state.room, CellKey(last'.req.x, last'.req.y) >> \notin DOMAIN spatialCache
      /\ spatialMap.ok
      /\ state.room \in DOMAIN spatialMap.rooms)
       => LET objects == spatialMap.rooms[state.room]
              x       == last'.req.x
              y       == last'.req.y
              d2s     == C14_Dist2s(objects, x, y)
          IN /\ (\A d2 \in d2s : d2 > 150 * 150)
                  => last'.body.description = EmptyFloor
             /\ (140 * 140 \in d2s /\ \A d2 \in d2s : d2 >= 140 * 140)
                  => \E i \in 1..Len(objects) :
                       /\ C14_Dist2s(<< objects[i] >>, x, y) = {140 * 140}
                       /\ last'.body.description = objects[i].description]_vars

\* A double-tap 0.151 from the cauldron found nothing; the next one, 0.14
\* from it, was told about the cauldron.
C14_Witness ==
  /\ Len(touchLog) = 2 /\ spatialCache = << >> /\ spatialMap = StandardMap
  /\ state.room = "workshop"
  /\ touchLog[1].x = 301 /\ touchLog[1].y = 150
  /\ touchLog[2].x = 290 /\ touchLog[2].y = 150
  /\ last.op = "touch" /\ "description" \in DOMAIN last.body
  /\ last.body.description = "the cauldron"

\* ------------------------------------------------------------------- C15
\* floor(10 c) for a coordinate c of [0, 1] in thousandths.
C15_Floor10(c) == CHOOSE k \in 0..10 : k * 100 <= c /\ c < (k + 1) * 100

\* C15: for every position of the unit square the lookup has been given,
\* the cell is (floor(10x), floor(10y)) with both indices clamped into 0..9,
\* a coordinate of exactly 1.0 falls in cell 9, and the key is
\* "<cellX>_<cellY>".
C15_CellInGrid ==
  \A i \in 1..Len(touchLog) :
    touchLog[i].type \in TouchTypes =>
      LET x == touchLog[i].x
          y == touchLog[i].y
      IN /\ Cell(x) \in 0..9 /\ Cell(y) \in 0..9
         /\ Cell(x) = (IF C15_Floor10(x) > 9 THEN 9 ELSE C15_Floor10(x))
         /\ Cell(y) = (IF C15_Floor10(y) > 9 THEN 9 ELSE C15_Floor10(y))
         /\ x = 1000 => Cell(x) = 9
         /\ y = 1000 => Cell(y) = 9
         /\ CellKey(x, y) = ToString(Cell(x)) \o "_" \o ToString(Cell(y))

\* A double-tap on the right edge (x = 1.0) was answered with the entry the
\* agent had posted for cell "9_1".
C15_Witness ==
  /\ last.op = "touch" /\ last.req.x = 1000 /\ last.req.y = 150
  /\ << state.room, "9_1" >> \in DOMAIN spatialCache
  /\ "description" \in DOMAIN last.body
  /\ last.body.description = AgentDescription

\* ------------------------------------------------------------------- C16
\* The step handles one successful POST /api/spatial-cache.
C16_PostStep == last'.op = "spatial-cache" /\ agentWrites' = agentWrites + 1

\* The coordinate c (thousandths) lies in the k-th tenth of [0, 1].
C16_InCell(c, k) == k * 100 <= c /\ (c < (k + 1) * 100 \/ (k = 9 /\ c = 1000))

\* C16: a POST /spatial-cache of (r, "<cx>_<cy>", d) sets that entry and no
\* other, nothing but such a POST changes the cache, and a spatial
\* double-tap made while the record's room is r at a position inside cell
\* (cx, cy) returns the entry held for (r, "<cx>_<cy>"): the description last
\* posted for it.
C16_RoundTrip ==
  [][/\ C16_PostStep =>
          /\ DOMAIN spatialCache' = DOMAIN spatialCache \cup
                                      {<< last'.req.room, last'.req.cell >>}
          /\ \A k \in DOMAIN spatialCache' :
               spatialCache'[k] = IF k = << last'.req.room, last'.req.cell >>
                                    THEN last'.req.description ELSE spatialCache[k]
     /\ ~C16_PostStep => spatialCache' = spatialCache
     /\ SpatialStep =>
          \A cx, cy \in 0..9 :
            LET key == ToString(cx) \o "_" \o ToString(cy)
            IN (/\ C16_InCell(last'.req.x, cx) /\ C16_InCell(last'.req.y, cy)
                /\ << state.room, key >> \in DOMAIN spatialCache)
                 => last'.body.description = spatialCache[<< state.room, key >>]]_vars

\* The agent posted a description for cell "2_1"; a later double-tap in
\* that cell, 0.14 from the cauldron, got the posted description.
C16_Witness ==
  /\ agentWrites = 1
  /\ << state.room, "2_1" >> \in DOMAIN spatialCache
  /\ spatialCache[<< state.room, "2_1" >>] = AgentDescription
  /\ last.op = "touch" /\ last.req.x = 290 /\ last.req.y = 150
  /\ "description" \in DOMAIN last.body
  /\ last.body.description = AgentDescription
  /\ state.room = "workshop" /\ spatialMap = StandardMap

\* ------------------------------------------------------------------- C17
\* C17: POST /identify whose identity is missing or outside the closed set
\* {miranda, ryan, guest} is answered 400 and has no effect: the identity
\* map, the event log, the pending queue, the record, the held baseline and
\* the revert timer are as they were.
C17_InvalidIdentifyRejected ==
  [][(/\ IdentifyHandled
      /\ last'.req.who \notin {"miranda", "ryan", "guest"})
       => /\ last'.code = 400
          /\ knownIps' = knownIps
          /\ touchLog' = touchLog
          /\ pendingTouches' = pendingTouches
          /\ state' = state
          /\ preReactionState' = preReactionState
          /\ reactionRevertTimer' = reactionRevertTimer
          /\ timers' = timers]_vars

\* An identification with no identity in its body was turned down while a
\* tap's revert was pending.
C17_Witness ==
  /\ last.op = "identify" /\ last.code = 400 /\ last.req.who = Null
  /\ Len(touchLog) = 1 /\ touchLog[1].type = "click" /\ touchLog[1].onSprite
  /\ timers # {} /\ preReactionState # NoBaseline
  /\ last.req.ip \notin DOMAIN knownIps

\* ------------------------------------------------------------------- C18
\* C18: a POST /identify with an identity of the closed set always succeeds
\* (no conflict with an earlier assignment) and leaves the address resolving
\* to the identity just given, the other addresses as they were; when the
\* address already had that identity the map is unchanged.
C18_LastWriterWins ==
  [][(/\ IdentifyHandled
      /\ last'.req.who \in {"miranda", "ryan", "guest"})
       => LET a == last'.req.ip
              i == last'.req.who
          IN /\ last'.code = 200
             /\ DOMAIN knownIps' = DOMAIN knownIps \cup {a}
             /\ knownIps'[a] = i
             /\ \A b \in DOMAIN knownIps : b # a => knownIps'[b] = knownIps[b]
             /\ (a \in DOMAIN knownIps /\ knownIps[a] = i) => knownIps' = knownIps]_vars

\* An address identified as miranda, then as guest: it is a guest now.
C18_Witness ==
  /\ Len(touchLog) = 2
  /\ touchLog[1].type = "identify" /\ touchLog[2].type = "identify"
  /\ touchLog[1].ip = touchLog[2].ip
  /\ touchLog[1].who = "miranda" /\ touchLog[2].who = "guest"
  /\ knownIps[touchLog[2].ip] = "guest"
  /\ last.op = "identify" /\ last.code = 200

\* ------------------------------------------------------------------- C19
\* C19: once an address has been given an identity by a successful
\* identification, no later touch from it is answered unknown:true or
\* needsIdentify:true, whatever touches, identifications, pending reads,
\* spatial-cache writes and revert callbacks came in between.
C19_NeverRePrompted ==
  [][(/\ TouchHandled
      /\ \E k \in 1..Len(touchLog) :
           touchLog[k].type = "identify" /\ touchLog[k].ip = last'.req.ip)
       => /\ "unknown" \notin DOMAIN last'.body
          /\ "needsIdentify" \notin DOMAIN last'.body
          /\ "unknown" \notin DOMAIN Logged]_vars

\* An address the server had never seen identified itself, then tapped the
\* target and was answered by name.
C19_Witness ==
  /\ Len(touchLog) = 2
  /\ touchLog[1].type = "identify" /\ touchLog[1].ip = "ip2"
  /\ touchLog[2].type = "click" /\ touchLog[2].ip = "ip2" /\ touchLog[2].onSprite
  /\ last.op = "touch" /\ last.body = [ok |-> TRUE, who |-> "miranda"]

\* ------------------------------------------------------------------- C20
\* The step handles one successful POST /api/identify.
C20_Identified == IdentifyHandled /\ last'.code = 200

C21_TouchNeverFails ==
  [][(TouchHandled /\ last'.req.type # Unparsable /\ files.touchLog = "ok")
       => /\ last'.code = 200
          /\ Len(touchLog') = Len(touchLog) + 1
          /\ files.knownIps # "ok" => "unknown" \in DOMAIN last'.body
          /\ (/\ files.spatialCache # "ok" /\ files.state = "ok"
              /\ SpatialGuard(Who(last'.req.ip), last'.req.onSprite,
                              IsDoubleClick(last'.req.type)))
               => /\ "description" \in DOMAIN last'.body
                  /\ last'.body.description =
                       FromMap(state.room, last'.req.x, last'.req.y)
          /\ (/\ ~spatialMap.ok /\ "description" \in DOMAIN last'.body
              /\ << state.room, CellKey(last'.req.x, last'.req.y) >>
                   \notin DOMAIN CacheRead)
               => last'.body.description = CantSee]_vars

\* ------------------------------------------------------------------- C22
\* C22: when a revert callback has run, whether it restored the baseline or
\* skipped, no baseline is held and no timer is pending; a reaction that
\* finds no timer pending captures the record's mood/status of that moment.
C22_IdleAfterFire ==
  [][/\ \A t \in timers :
          Fires(t) => timers' = {} /\ preReactionState' = NoBaseline
     /\ (timers = {} /\ timers' # {})
          => \A t \in timers' : t.restoreTo = MS(state)]_vars

\* A tap's callback has run after the agent had rewritten the record: the
\* agent's value stands, nothing is held, nothing is pending.
C22_Witness ==
  /\ Len(touchLog) = 1 /\ touchLog[1].type = "click" /\ touchLog[1].onSprite
  /\ agentWrites = 1 /\ MS(state) = agentVal /\ agentVal # MS(InitialRecord)
  /\ now = StartTime + 5
  /\ timers = {} /\ preReactionState = NoBaseline

\* ------------------------------------------------------------------- C23
\* The branch that answers the event logged by the step.
C23_Kind ==
  IF Logged.type = "identify" THEN "identify"
  ELSE IF Logged.onSprite /\ Logged.type = "dblclick" THEN "dbl"
  ELSE IF Logged.onSprite THEN "tap"
  ELSE "spatial"

\* C23: a reaction that arrives while a revert is pending cancels it and
\* schedules its own revert exactly its branch's delay after the new event
\* (tap and identify 5 s, double-tap on target 10 s, spatial 8 s); callbacks
\* run only at the deadline of the chain's last reaction, never at a
\* superseded one, and nothing else writes a revert.
C23_Rescheduled ==
  [][/\ (timers # {} /\ Len(touchLog') = Len(touchLog) + 1 /\ timers' # timers)
          => \E t \in timers' :
               /\ timers' = {t}
               /\ t \notin timers
               /\ t.kind = C23_Kind
               /\ t.at = now + C2_Delay(C23_Kind)
     /\ \A t \in timers :
          Fires(t) => /\ now = reactedAt + C2_Delay(t.kind)
                      /\ t.id = reactionRevertTimer
     /\ (state' # state /\ touchLog' = touchLog /\ agentWrites' = agentWrites)
          => \E t \in timers : Fires(t)]_vars

\* A tap, then a double-tap one second later: the tap's deadline has passed
\* with no write and the double-tap's revert is due now.
C23_Witness ==
  /\ Len(touchLog) = 2
  /\ touchLog[1].type = "click" /\ touchLog[1].onSprite
  /\ touchLog[2].type = "dblclick" /\ touchLog[2].onSprite
  /\ now = StartTime + 11
  /\ \E t \in timers : timers = {t} /\ t.at = now /\ t.kind = "dbl"
  /\ MS(state) = [mood |-> ThinkingMood, status |-> ThinkingStatus]

\* ------------------------------------------------------------------- C24
\* C24: a failure to write the PresenceRecord during a touch or identify
\* reaction is answered with an error, not with a success.
C24_WriteFailureSurfaced ==
  [][(/\ files.state = "readonly"
      /\ \/ TouchHandled /\ last'.req.onSprite
         \/ IdentifyHandled /\ Len(touchLog') = Len(touchLog) + 1)
       => last'.code # 200]_vars

\* ------------------------------------------------------------------- C25
\* C25: POST /touch answers needsIdentify:true iff the caller's address has
\* no identity record and the touch was on target; a tap or double-tap off
\* the target from an unknown address is appended to the event log and
\* changes nothing else.
C25_NeedsIdentifyIff ==
  [][TouchHandled
       => LET unknown == last'.req.ip \notin DOMAIN knownIps
          IN /\ ("needsIdentify" \in DOMAIN last'.body /\ last'.body.needsIdentify)
                  <=> (unknown /\ last'.req.onSprite)
             /\ (unknown /\ ~last'.req.onSprite)
                  => /\ Len(touchLog') = Len(touchLog) + 1
                     /\ SubSeq(touchLog', 1, Len(touchLog)) = touchLog
                     /\ state' = state
                     /\ pendingTouches' = pendingTouches
                     /\ wakes' = wakes /\ touchWakeThrottle' = touchWakeThrottle
                     /\ timers' = timers /\ reactionRevertTimer' = reactionRevertTimer
                     /\ preReactionState' = preReactionState
                     /\ knownIps' = knownIps /\ spatialCache' = spatialCache]_vars

\* An unknown address double-tapped off the target while a revert was
\* pending: it is not asked to identify and the revert is still pending.
C25_Witness ==
  /\ Len(touchLog) = 2
  /\ "unknown" \in DOMAIN touchLog[2] /\ ~touchLog[2].onSprite
  /\ touchLog[2].type = "dblclick"
  /\ last.op = "touch"
  /\ last.body = [ok |-> TRUE, unknown |-> TRUE, needsIdentify |-> FALSE]
  /\ timers # {}
  /\ pendingTouches = << >>

\* ------------------------------------------------------------------- C26
\* C26: the spatial reaction (the description written as status, the answer
\* carrying spatial:true and the description) happens iff the event is a
\* double-tap off the target from an address whose identity is a named
\* person; an off-target double-tap from a guest or an unknown address
\* leaves the record, the held baseline and the revert timer as they were.
C26_SpatialIff ==
  [][TouchHandled
       => LET offDbl == ~last'.req.onSprite /\ last'.req.type \in {"dblclick", "doubleclick"}
              named  == /\ last'.req.ip \in DOMAIN knownIps
                        /\ knownIps[last'.req.ip] # "guest"
          IN /\ ("spatial" \in DOMAIN last'.body) <=> (offDbl /\ named)
             /\ (offDbl /\ named)
                  => /\ last'.body.spatial
                     /\ state'.status = last'.body.description
                     /\ \E t \in timers' : timers' = {t} /\ t.kind = "spatial"
             /\ (offDbl /\ ~named)
                  => /\ state' = state
                     /\ preReactionState' = preReactionState
                     /\ timers' = timers
                     /\ reactionRevertTimer' = reactionRevertTimer]_vars

\* A guest double-tapped off the target while the revert of the
\* identification was pending: no description, the greeting still shows.
C26_Witness ==
  /\ Len(touchLog) = 2
  /\ touchLog[1].type = "identify" /\ touchLog[1].who = "guest"
  /\ touchLog[2].type = "dblclick" /\ ~touchLog[2].onSprite
  /\ "who" \in DOMAIN touchLog[2] /\ touchLog[2].who = "guest"
  /\ last.op = "touch" /\ "spatial" \notin DOMAIN last.body
  /\ MS(state) = [mood |-> GuestMood, status |-> GuestStatus]
  /\ \E t \in timers : t.kind = "identify"

\* ------------------------------------------------------------------- C27
\* C27: the spatial branch's write changes the status only: the record's
\* mood, room and location after a spatial reaction are what they were
\* before it, whether or not a revert was pending.
C27_SpatialStatusOnly ==
  [][SpatialStep
       => /\ state'.mood = state.mood
          /\ state'.room = state.room
          /\ state'.location = state.location
          /\ state'.status = last'.body.description]_vars

\* A second spatial reaction arrived while the first one's revert was
\* pending; the mood is the one the record started with.
C27_Witness ==
  /\ Len(touchLog) = 2 /\ chainLen = 2
  /\ last.op = "touch" /\ "spatial" \in DOMAIN last.body
  /\ state.status = last.body.description
  /\ state.status # InitialRecord.status
  /\ state.mood = InitialRecord.mood /\ state.location = InitialRecord.location

\* ------------------------------------------------------------------- C28
\* C28: the wake decision does not depend on the presence write: a double-tap
\* on target by a known identity that the throttle allows emits the wake and
\* records the last-wake time even when the record cannot be read or written;
\* a failed wake delivery changes no state, is not retried and does not alter
\* the response.
C28_WakeIndependent ==
  [][/\ (/\ TouchHandled
          /\ last'.code = 200
          /\ last'.req.onSprite
          /\ last'.req.type \in {"dblclick", "doubleclick"}
          /\ files.knownIps = "ok"
          /\ last'.req.ip \in DOMAIN knownIps
          /\ \/ knownIps[last'.req.ip] \notin DOMAIN touchWakeThrottle
             \/ now - touchWakeThrottle[knownIps[last'.req.ip]] > WakeWindow)
        => /\ wakes' = Append(wakes, [who |-> knownIps[last'.req.ip], at |-> now])
           /\ knownIps[last'.req.ip] \in DOMAIN touchWakeThrottle'
           /\ touchWakeThrottle'[knownIps[last'.req.ip]] = now
           /\ last'.body.ok /\ last'.body.who = knownIps[last'.req.ip]
     /\ (wakeFailed' # wakeFailed)
        => /\ wakes' = wakes /\ touchWakeThrottle' = touchWakeThrottle
           /\ last' = last /\ state' = state
           /\ timers' = timers /\ reactionRevertTimer' = reactionRevertTimer
           /\ preReactionState' = preReactionState
           /\ touchLog' = touchLog /\ pendingTouches' = pendingTouches
           /\ knownIps' = knownIps /\ spatialCache' = spatialCache]_vars

\* The record could not be read, the double-tap still woke the agent once,
\* and the delivery of that wake failed: the record, the timers and the
\* answer are those of the touch.
C28_Witness ==
  /\ files.state = "unreadable"
  /\ Len(wakes) = 1 /\ wakes[1].who = "miranda"
  /\ wakeFailed = {1}
  /\ "miranda" \in DOMAIN touchWakeThrottle
  /\ touchWakeThrottle["miranda"] = wakes[1].at
  /\ state = InitialRecord /\ timers = {}
  /\ last.op = "touch" /\ last.body = [ok |-> TRUE, who |-> "miranda"]

\* ------------------------------------------------------------------- C29
\* The landmarks of the record's room in a readable map, in list order.
C29_Objects ==
  IF state.room \in DOMAIN spatialMap.rooms THEN spatialMap.rooms[state.room]
                                             ELSE << >>

\* The last answer is a spatial one, found in the map and not in the cache.
C29_FromMap ==
  /\ last.op = "touch" /\ "description" \in DOMAIN last.body
  /\ << state.room, CellKey(last.req.x, last.req.y) >> \notin DOMAIN spatialCache
  /\ spatialMap.ok

\* The first landmark in list order among those of least squared distance
\* to the last tap.
C29_First ==
  CHOOSE i \in 1..Len(C29_Objects) :
    /\ \A j \in 1..Len(C29_Objects) :
          Dist2(C29_Objects[i], last.req.x, last.req.y)
            <= Dist2(C29_Objects[j], last.req.x, last.req.y)
    /\ \A j \in 1..(i - 1) :
          Dist2(C29_Objects[j], last.req.x, last.req.y)
            # Dist2(C29_Objects[i], last.req.x, last.req.y)

\* C29: with no cache entry for the tapped cell, the landmark considered is
\* the one of least Euclidean distance to the tap among the room's landmarks,
\* the first in the room's list order when several are equally near; a room
\* with no landmarks, or absent from the map, gets the generic description.
C29_NearestFirst ==
  C29_FromMap
    => IF C29_Objects = << >>
         THEN last.body.description = EmptyFloor
         ELSE /\ last.body.description \in {C29_Objects[C29_First].description, EmptyFloor}
              /\ Dist2(C29_Objects[C29_First], last.req.x, last.req.y)
                   < ProximityThreshold * ProximityThreshold
                  => last.body.description = C29_Objects[C29_First].description

\* The tap at (0.29, 0.15) is 0.14 from both landmarks of the workshop and
\* was answered with the first of the list.
C29_Witness ==
  /\ C29_FromMap
  /\ spatialMap = TieMap
  /\ last.req.x = 290 /\ last.req.y = 150
  /\ Dist2(TieMap.rooms["workshop"][1], 290, 150) = Dist2(TieMap.rooms["workshop"][2], 290, 150)
  /\ last.body.description = "the bench"
  /\ state.status = "the bench"

\* ------------------------------------------------------------------- C30
\* The last tap's nearest landmark is exactly 0.15 away.
C30_AtThreshold ==
  /\ C29_FromMap
  /\ C29_Objects # << >>
  /\ Dist2(C29_Objects[C29_First], last.req.x, last.req.y)
       = ProximityThreshold * ProximityThreshold

\* C30 as stated: the proximity threshold is inclusive; with no cache entry
\* a tap whose nearest landmark is exactly 0.15 away returns that landmark's
\* description.
C30_ThresholdInclusive ==
  C30_AtThreshold => last.body.description = C29_Objects[C29_First].description

\* C30 amended: the proximity threshold is exclusive; with no cache entry a
\* tap whose nearest landmark is exactly 0.15 away returns the generic
\* description, and that landmark's description only when strictly nearer.
C30_ThresholdExclusive ==
  C30_AtThreshold => last.body.description = EmptyFloor

\* The tap at (0.30, 0.15), exactly 0.15 from the cauldron, was answered
\* with the generic description.
C30_Witness ==
  /\ C30_AtThreshold
  /\ spatialMap = StandardMap
  /\ last.req.x = 300 /\ last.req.y = 150
  /\ last.body.description = EmptyFloor
  /\ state.status = EmptyFloor

\* ------------------------------------------------------------------- C31
\* C31: an identity record for an address is created only by a successful
\* identification issued from that address while it is unknown and after it
\* has touched the reactive target; touches, pending reads, spatial-cache
\* writes and timer firings never create or change an identity record.
C31_CreatedOnlyAfterTouch ==
  [][/\ knownIps' # knownIps => IdentifyHandled /\ last'.code = 200
     /\ \A a \in Ips :
          (a \notin DOMAIN knownIps /\ a \in DOMAIN knownIps')
            => /\ IdentifyHandled /\ last'.code = 200 /\ last'.req.ip = a
               /\ \E i \in 1..Len(touchLog) :
                     /\ touchLog[i].ip = a
                     /\ touchLog[i].type \in TouchTypes
                     /\ touchLog[i].onSprite]_vars

\* ------------------------------------------------------------------- C33
\* C33: in every reachable state a baseline is held only if a revert timer
\* that will clear it is pending; a baseline is never left captured with no
\* scheduled revert, also when writing the presence file fails after the
\* capture.
C33_BaselineHasRevert ==
  preReactionState # NoBaseline
    => \E t \in timers : t.id = reactionRevertTimer /\ t.kind \in {"tap", "identify"}

\* ------------------------------------------------------------------- C35
\* The step handles one POST /api/spatial-cache.
C35_Posted ==
  last'.op = "spatial-cache" /\ (last' # last \/ agentWrites' # agentWrites)

\* C35: a successful POST /spatial-cache sets the cache entry (room, cell)
\* and overwrites the record's status with the description, and changes
\* nothing else: mood, room, location, the held baseline, the pending revert
\* timer and every other cache entry stay; a request missing room, cell or
\* description is answered 400 and changes neither the cache nor the record.
C35_PostFrame ==
  [][C35_Posted
       => LET q   == last'.req
              key == << q.room, q.cell >>
          IN /\ Null \in {q.room, q.cell, q.description}
                  => /\ last'.code = 400
                     /\ spatialCache' = spatialCache /\ state' = state
             /\ Null \notin {q.room, q.cell, q.description} /\ files = Healthy
                  => /\ last'.code = 200
                     /\ DOMAIN spatialCache' = DOMAIN spatialCache \cup {key}
                     /\ spatialCache'[key] = q.description
                     /\ \A k \in DOMAIN spatialCache \ {key} :
                           spatialCache'[k] = spatialCache[k]
                     /\ state' = [state EXCEPT !.status = q.description]
             /\ preReactionState' = preReactionState
             /\ timers' = timers /\ reactionRevertTimer' = reactionRevertTimer
             /\ knownIps' = knownIps /\ touchLog' = touchLog
             /\ pendingTouches' = pendingTouches
             /\ wakes' = wakes /\ touchWakeThrottle' = touchWakeThrottle]_vars

\* A description was posted while a tap's baseline was held and its revert
\* pending: the status is the description, the mood is still the tap's, and
\* the two entries the cache had are still there.
C35_Witness ==
  /\ files = Healthy
  /\ last.op = "spatial-cache" /\ last.code = 200
  /\ preReactionState = MS(InitialRecord)
  /\ \E t \in timers : t.kind = "tap" /\ state.mood = t.mood
  /\ state.status = AgentDescription
  /\ DOMAIN spatialCache = DOMAIN FaultCache \cup {<< "workshop", "1_1" >>}
  /\ \A k \in DOMAIN FaultCache : spatialCache[k] = FaultCache[k]

\* ------------------------------------------------------------------- C36
\* C36: a successful identify from address a changes only a's entry of the
\* identity map: every other address keeps the identity it had before the
\* call, also when the identity file could not be read at that moment.
C36_OthersKeepIdentity ==
  [][(IdentifyHandled /\ last'.code = 200)
       => \A b \in DOMAIN knownIps \ {last'.req.ip} :
            b \in DOMAIN knownIps' /\ knownIps'[b] = knownIps[b]]_vars

\* ------------------------------------------------------------------- C38
\* C38: a POST /touch whose body cannot be parsed, or whose event-log append
\* fails, is answered 400 and has no further effect: no record mutation, no
\* baseline capture, no timer cancelled or scheduled, no throttle update and
\* no wake.
C38_RejectedTouchNoEffect ==
  [][(TouchHandled /\ (last'.req.type = Unparsable \/ files.touchLog # "ok"))
       => /\ last'.code = 400
          /\ state' = state
          /\ preReactionState' = preReactionState
          /\ timers' = timers /\ reactionRevertTimer' = reactionRevertTimer
          /\ touchWakeThrottle' = touchWakeThrottle /\ wakes' = wakes
          /\ touchLog' = touchLog /\ pendingTouches' = pendingTouches
          /\ knownIps' = knownIps /\ spatialCache' = spatialCache]_vars

\* The log could not be appended to: a known visitor's double-tap on the
\* target was answered 400 and woke nobody.
C38_Witness ==
  /\ files.touchLog = "unwritable"
  /\ last.op = "touch" /\ last.code = 400
  /\ last.req.type = "dblclick" /\ last.req.onSprite
  /\ last.req.ip \in DOMAIN knownIps
  /\ wakes = << >> /\ touchWakeThrottle = << >>
  /\ state = InitialRecord /\ timers = {} /\ preReactionState = NoBaseline
  /\ touchLog = << >> /\ pendingTouches = << >>

\* ------------------------------------------------------------------- C37
\* The step handles one GET /api/pending-touches.
C37_Read ==
  last'.op = "pending" /\ (last' # last \/ pendingTouches' # pendingTouches)

\* C37: no pending event is lost or reordered: over every interleaving of
\* touches and reads, every event appended to the pending queue is returned
\* by the first GET /pending-touches that completes after the append, and
\* the events of a batch are in the order they were appended.
C37_NothingLost ==
  [][/\ IF C37_Read
          THEN /\ last'.body.events = pendingTouches
               /\ pendingTouches' = << >>
          ELSE /\ Len(pendingTouches') >= Len(pendingTouches)
               /\ SubSeq(pendingTouches', 1, Len(pendingTouches)) = pendingTouches
     /\ \A i, j \in 1..Len(pendingTouches') :
          i < j => pendingTouches'[i].n < pendingTouches'[j].n]_vars

\* A tap on the target and a double-tap off it came before the agent read:
\* the batch holds both events, the earlier one first, and the queue is empty.
C37_Witness ==
  /\ last.op = "pending"
  /\ Len(last.body.events) = 2
  /\ last.body.events[1].n = 1 /\ last.body.events[2].n = 2
  /\ last.body.events[1].onSprite /\ last.body.events[1].type = "click"
  /\ ~last.body.events[2].onSprite /\ last.body.events[2].type = "dblclick"
  /\ pendingTouches = << >>

\* ------------------------------------------------------------------- C32
\* The step runs, from its await to its response, the handler of a request
\* of ip that was suspended, and the handler reacts.
C32_Reacts(ip) ==
  /\ awaiting[ip] # NotWaiting /\ awaiting'[ip] = NotWaiting
  /\ last'.code = 200
  /\ touchLog' # touchLog

\* C32: touch and identify handlers are atomic with respect to each other
\* and to the revert callbacks: the only suspension point precedes every
\* access to shared state, so over every interleaving of concurrent requests
\* a handler reads the record as the handlers and callbacks that ran before
\* it left it and writes its reaction over that same record (no two handlers
\* capture a baseline from one pre-reaction record, no callback runs between
\* a handler's read and its write).
C32_HandlersAtomic ==
  [][\A ip \in Ips :
       C32_Reacts(ip)
         => \E t \in timers' :
              /\ timers' = {t} /\ t.id = reactionRevertTimer'
              /\ t.at = now + RevertDelay(t.kind)
              /\ t.restoreTo = IF preReactionState # NoBaseline THEN preReactionState
                                                                 ELSE MS(state)
              /\ state' = [state EXCEPT !.mood = t.mood, !.status = t.status]]_vars

\* ip1's double-tap completed and ip1 sent a new request; then ip2's tap
\* completed while that request was still waiting for its body: the tap's
\* baseline is the placeholder the double-tap wrote.
C32_Witness ==
  /\ Len(touchLog) = 2
  /\ touchLog[1].ip = "ip1" /\ touchLog[1].type = "dblclick"
  /\ touchLog[2].ip = "ip2" /\ touchLog[2].type = "click"
  /\ awaiting["ip1"] # NotWaiting /\ awaiting["ip2"] = NotWaiting
  /\ MS(awaiting["ip1"]) = [mood |-> ThinkingMood, status |-> ThinkingStatus]
  /\ \E t \in timers :
       /\ timers = {t} /\ t.kind = "tap"
       /\ t.restoreTo = [mood |-> ThinkingMood, status |-> ThinkingStatus]
       /\ MS(state) = [mood |-> t.mood, status |-> t.status]

\* ------------------------------------------------------------------- C34
\* C34: no touch reaction, identify reaction or revert callback changes the
\* record's room or location: through any sequence of them, interleaved with
\* external writes, room and location are the ones the external writer wrote
\* last.
C34_RoomOnlyByAgent ==
  [][(state'.room # state.room \/ state'.location # state.location)
       => /\ agentWrites' = agentWrites + 1
          /\ last' = last /\ touchLog' = touchLog
          /\ timers' = timers /\ preReactionState' = preReactionState]_vars

\* The agent moved to the garden while the double-tap's placeholder showed;
\* the callback then restored mood and status and the room is the garden.
C34_Witness ==
  /\ state.room = "garden"
  /\ MS(state) = MS(InitialRecord)
  /\ agentWrites = 1
  /\ Len(touchLog) >= 1 /\ touchLog[1].type = "dblclick"
  /\ timers = {}

====
